---- MODULE Spec2Model ----
(***************************************************************************)
(* A model of giantswarm/tprstorage (src/storage.go): a key-value facade   *)
(* over the data map of one third party object (TPO) kept in a Kubernetes  *)
(* API server.  Several Storage instances (Procs) share the API server.    *)
(* Every facade call is one round trip: the handler builds a request, the  *)
(* API server handles it atomically, the handler turns the response into   *)
(* its return value.  New makes three such round trips in a row.           *)
(*                                                                         *)
(* Strings whose characters the code inspects (keys) are sequences of      *)
(* one-character strings; all other strings are TLA+ strings.              *)
(***************************************************************************)
EXTENDS Integers, Sequences, FiniteSets, TLC

\* ------------------------------------------------------------------ bounds

\* At most MaxCalls invocations (New and facade operations together) are
\* started in one behaviour.
MaxCalls == 4

\* The Storage instances (callers) sharing the API server.
Procs == {"s1", "s2"}

\* "/f", "/f/b", "/fb": a key, a key below it, and a key that has it as a
\* string prefix only ("/foo", "/foo/bar", "/foobar").
Keys == { <<"/", "f">>, <<"/", "f", "/", "b">>, <<"/", "f", "b">> }

\* The keys List is called with: the keys, and the empty key.
ListKeys == Keys \cup { << >> }

Values == {"", "v"}

\* ------------------------------------------------------------- error kinds

Nil == "nil"
invalidConfigError == "invalidConfigError"
notFoundError == "notFoundError"
\* Errors of the API server, as the client reports them.
alreadyExists == "alreadyExists"
transportError == "transportError"

\* microerror.Mask / microerror.Maskf keep the cause of the error they wrap.
Mask(err) == err

\* ------------------------------------------------------------ JSON values

\* The JSON values the request bodies are made of.
JStr(v) == [t |-> "str", v |-> v]
JNull == [t |-> "null"]
JObj(m) == [t |-> "obj", m |-> m]

\* map[string]string{}
EmptyMap == [k \in {} |-> ""]

\* ----------------------------------------------------------- configuration

TPRName == "tpr-storage.giantswarm.io"
TPRVersion == "v1"
TPOName == "integration-test"

\* Every configuration: each required field present or missing, the
\* namespace given or left empty.
AllConfigs ==
    [ K8sClient : {"nil", "client"},
      Logger    : {"nil", "logger"},
      TPR       : [Name : {"", TPRName}, Version : {"", TPRVersion}],
      TPO       : [Name : {"", TPOName}, Namespace : {"", "default"}] ]

\* The required fields a configuration leaves out.
Missing(config) ==
    {f \in {"K8sClient", "Logger"} : config[f] = "nil"}
        \cup {f \in {"TPR.Name", "TPR.Version"} :
                (f = "TPR.Name" /\ config.TPR.Name = "")
                    \/ (f = "TPR.Version" /\ config.TPR.Version = "")}
        \cup {f \in {"TPO.Name"} : config.TPO.Name = ""}

\* The configurations New is called with: complete, or with one required
\* field left out.
Configs == {config \in AllConfigs : Cardinality(Missing(config)) <= 1}

\* (*tpr.TPR).Endpoint(namespace), Kind() and APIVersion() of the resource
\* type the configuration names.
Endpoint(tprc, ns) == <<tprc.Name, tprc.Version, ns>>
Kind(tprc) == <<"kind", tprc.Name>>
APIVersion(tprc) == <<"apiVersion", tprc.Name, tprc.Version>>

\* New, the configuration checks: the error New returns before it does
\* anything else, or Nil.
ValidateConfigNoTPOName(config) ==
    IF config.K8sClient = "nil" THEN invalidConfigError
    ELSE IF config.Logger = "nil" THEN invalidConfigError
    ELSE IF config.TPR.Name = "" THEN invalidConfigError
    ELSE IF config.TPR.Version = "" THEN invalidConfigError
    ELSE Nil

ValidateConfig(config) ==
    IF config.K8sClient = "nil" THEN invalidConfigError
    ELSE IF config.Logger = "nil" THEN invalidConfigError
    ELSE IF config.TPR.Name = "" THEN invalidConfigError
    ELSE IF config.TPR.Version = "" THEN invalidConfigError
    ELSE IF config.TPO.Name = "" THEN invalidConfigError
    ELSE Nil

\* New: an empty namespace is replaced by "default".
Namespace(config) ==
    IF config.TPO.Namespace = "" THEN "default" ELSE config.TPO.Namespace

\* The Storage New builds: the two endpoints it keeps.
NewStorage(config) ==
    [ tpoEndpoint     |-> Append(Endpoint(config.TPR, Namespace(config)), config.TPO.Name),
      tpoListEndpoint |-> Endpoint(config.TPR, Namespace(config)) ]

NoStorage == [none |-> TRUE]

\* New: the third party object posted to the list endpoint.
NewTPO(config) ==
    [ kind        |-> Kind(config.TPR),
      apiVersion  |-> APIVersion(config.TPR),
      name        |-> config.TPO.Name,
      namespace   |-> Namespace(config),
      annotations |-> [storageDoNotOmitempty |-> "non-empty"],
      data        |-> EmptyMap ]

\* json.Marshal of a customObject: the members of the type and object
\* metadata are left out when empty, the data member is always written, as
\* a map, also when it is empty.
Marshal(tpo) ==
    [ f \in { g \in DOMAIN tpo :
                \/ g = "data"
                \/ g = "annotations" /\ DOMAIN tpo[g] # {}
                \/ g \notin {"data", "annotations"} /\ tpo[g] # "" }
        |-> tpo[f] ]

\* -------------------------------------------------- the facade's handlers

\* Put, the request: a merge patch of the object at tpoEndpoint whose body
\* is {"data": {key: value}}.
PutBodyDropsValue(key, value) == [data |-> JObj((key :> JStr("")))]

PutBody(key, value) == [data |-> JObj((key :> JStr(value)))]

\* Put, after the round trip: the client's error, masked, or nil.
PutResult(respErr) ==
    IF respErr # Nil THEN [val |-> Nil, err |-> Mask(respErr), panic |-> FALSE]
    ELSE [val |-> Nil, err |-> Nil, panic |-> FALSE]

\* Create calls Put; it masks Put's error without returning it, and
\* returns nil.
CreateResult(putResult) == [val |-> Nil, err |-> Nil, panic |-> FALSE]

\* Delete, the request: a merge patch whose body is {"data": {key: null}}.
DeleteBodyEmptyString(key) == [data |-> JObj((key :> JStr("")))]

DeleteBodyNullData(key) == [data |-> JNull]

DeleteBody(key) == [data |-> JObj((key :> JNull))]

DeleteResult(respErr) ==
    IF respErr # Nil THEN [val |-> Nil, err |-> Mask(respErr), panic |-> FALSE]
    ELSE [val |-> Nil, err |-> Nil, panic |-> FALSE]

\* getData answering from the object as New posted it, not from the
\* response.
getDataStale(resp) ==
    [data |-> EmptyMap, err |-> IF resp.err # Nil THEN Mask(resp.err) ELSE Nil]

\* getData, after the round trip: the data of the object the response
\* holds, decoded into a customObject (a missing data field decodes to the
\* nil map, which reads as the empty map), or the client's error.
getData(resp) ==
    IF resp.err # Nil THEN [data |-> EmptyMap, err |-> Mask(resp.err)]
    ELSE [data |-> IF "data" \in DOMAIN resp.obj THEN resp.obj.data ELSE EmptyMap,
          err  |-> Nil]

\* strings.HasPrefix(k, key)
HasPrefix(k, key) == Len(k) >= Len(key) /\ SubSeq(k, 1, Len(key)) = key

\* Exists that also answers for the keys below key.
ExistsPrefixAware(got, key) ==
    IF got.err # Nil THEN [val |-> FALSE, err |-> Mask(got.err), panic |-> FALSE]
    ELSE [val |-> \E k \in DOMAIN got.data : HasPrefix(k, key),
          err |-> Nil, panic |-> FALSE]

\* Exists, given what getData returned.
Exists(got, key) ==
    IF got.err # Nil THEN [val |-> FALSE, err |-> Mask(got.err), panic |-> FALSE]
    ELSE [val |-> key \in DOMAIN got.data, err |-> Nil, panic |-> FALSE]

\* Search of the other variant of the package: the zero value and no error
\* for a key that is not there.
SearchLegacy(got, key) ==
    IF got.err # Nil THEN [val |-> "", err |-> Mask(got.err), panic |-> FALSE]
    ELSE [val |-> IF key \in DOMAIN got.data THEN got.data[key] ELSE "",
          err |-> Nil, panic |-> FALSE]

\* Search, given what getData returned.
Search(got, key) ==
    IF got.err # Nil THEN [val |-> "", err |-> Mask(got.err), panic |-> FALSE]
    ELSE IF key \notin DOMAIN got.data
         THEN [val |-> "", err |-> Mask(notFoundError), panic |-> FALSE]
         ELSE [val |-> got.data[key], err |-> Nil, panic |-> FALSE]

\* List, the loop over the data's keys taken in the order `order` (Go
\* ranges over a map in an unspecified order).  Go indexes strings from 0:
\* k[keyLen] is the character after the prefix, and k[keyLen+1:] is out of
\* range, a run-time panic, when keyLen+1 > len(k).
RECURSIVE ListLoop(_, _, _)
ListLoop(order, key, list) ==
    IF order = << >> THEN [list |-> list, panic |-> FALSE]
    ELSE LET k == Head(order)
             keyLen == Len(key)
         IN  IF ~HasPrefix(k, key) THEN ListLoop(Tail(order), key, list)
             ELSE IF Len(k) # keyLen /\ k[keyLen + 1] # "/"
                  THEN ListLoop(Tail(order), key, list)
             ELSE IF keyLen + 1 > Len(k) THEN [list |-> << >>, panic |-> TRUE]
             ELSE ListLoop(Tail(order), key,
                           Append(list, SubSeq(k, keyLen + 2, Len(k))))

\* List, given what getData returned and the order of the range.
List(got, key, order) ==
    IF got.err # Nil THEN [val |-> << >>, err |-> Mask(got.err), panic |-> FALSE]
    ELSE LET r == ListLoop(order, key, << >>)
         IN  [val |-> r.list, err |-> Nil, panic |-> r.panic]

\* The orders a range over a map with the key set S can take.
Orders(S) ==
    { o \in [1 .. Cardinality(S) -> S] : \A i, j \in DOMAIN o : i # j => o[i] # o[j] }

\* ---------------------------------------------------------- the API server

\* A JSON merge patch (RFC 7386) applied to a stored object.  The bodies
\* the facade sends have the one member "data": null removes the member, an
\* object is merged into it key by key, a null value removing the key.
ReplaceData(target, m) ==
    [ k \in { j \in DOMAIN m : m[j].t = "str" } |-> m[k].v ]

MergeDataKeepsExisting(target, m) ==
    [ k \in DOMAIN target \cup { j \in DOMAIN m : m[j].t = "str" }
        |-> IF k \in DOMAIN target THEN target[k] ELSE m[k].v ]

MergeData(target, m) ==
    [ k \in (DOMAIN target \cup { j \in DOMAIN m : m[j].t = "str" })
             \ { j \in DOMAIN m : m[j].t = "null" }
        |-> IF k \in DOMAIN m THEN m[k].v ELSE target[k] ]

MergePatch(obj, patch) ==
    IF "data" \notin DOMAIN patch THEN obj
    ELSE IF patch.data.t = "null"
         THEN [f \in DOMAIN obj \ {"data"} |-> obj[f]]
    ELSE LET target == IF "data" \in DOMAIN obj THEN obj.data ELSE EmptyMap
         IN  [f \in DOMAIN obj \cup {"data"} |->
                IF f = "data" THEN MergeData(target, patch.data.m) ELSE obj[f]]

\* The path of a stored object: the list endpoint it was posted to, then
\* its name.
ObjectPath(e) == Append(e.endpoint, e.obj.name)

\* --------------------------------------------------------------- the state

VARIABLES
    tprs,        \* API server: the registered third party resources
    namespaces,  \* API server: the namespaces
    objects,     \* API server: the stored third party objects, each with
                 \* the list endpoint it was posted to
    storage,     \* per caller: the Storage its last successful New returned
    pc,          \* per caller: where its current call is
    op,          \* per caller: its current (or last) call and arguments
    req,         \* per caller: the request in flight
    resp,        \* per caller: the response received, not yet handled
    result,      \* per caller: what its last call returned
    lastWrite,   \* history: per key, the last Put or Delete the API server applied
    seen,        \* history: per caller, lastWrite of the key of its call
                 \* when the API server served it (for a write: its own)
    nreq,        \* history: per caller, the requests its current call has sent
    calls        \* the calls started so far

vars == <<tprs, namespaces, objects, storage, pc, op, req, resp, result,
          lastWrite, seen, nreq, calls>>

server == <<tprs, namespaces, objects>>

NoOp == [name |-> "none"]
NoReq == [verb |-> "none"]
NoResp == [none |-> TRUE]
NoResult == [none |-> TRUE]
NoWrite == [kind |-> "None"]

Init ==
    /\ tprs = {}
    /\ namespaces = {}
    /\ objects = {}
    /\ storage = [p \in Procs |-> NoStorage]
    /\ pc = [p \in Procs |-> "idle"]
    /\ op = [p \in Procs |-> NoOp]
    /\ req = [p \in Procs |-> NoReq]
    /\ resp = [p \in Procs |-> NoResp]
    /\ result = [p \in Procs |-> NoResult]
    /\ lastWrite = [k \in Keys |-> NoWrite]
    /\ seen = [p \in Procs |-> NoWrite]
    /\ nreq = [p \in Procs |-> 0]
    /\ calls = 0

\* The API server's answer to a request it does not serve (network, auth).
Outcomes == {"served", "failed"}

\* ------------------------------------------------------------------- New

Failed(err) == [val |-> NoStorage, err |-> err, panic |-> FALSE]

\* New is called: the configuration checks, then the Storage is built and
\* the third party resource's creation is requested (tpr.New accepts what
\* the checks accepted).
NewCall(p, config) ==
    /\ pc[p] = "idle"
    /\ calls < MaxCalls
    /\ calls' = calls + 1
    /\ op' = [op EXCEPT ![p] = [name |-> "New", config |-> config]]
    /\ resp' = [resp EXCEPT ![p] = NoResp]
    /\ seen' = [seen EXCEPT ![p] = NoWrite]
    /\ IF ValidateConfig(config) # Nil
       THEN /\ result' = [result EXCEPT ![p] = Failed(Mask(ValidateConfig(config)))]
            /\ nreq' = [nreq EXCEPT ![p] = 0]
            /\ UNCHANGED <<pc, req>>
       ELSE /\ pc' = [pc EXCEPT ![p] = "tpr"]
            /\ req' = [req EXCEPT ![p] = [verb |-> "CreateTPR", tpr |-> config.TPR]]
            /\ result' = [result EXCEPT ![p] = NoResult]
            /\ nreq' = [nreq EXCEPT ![p] = 1]
    /\ UNCHANGED <<server, storage, lastWrite>>

\* An "already exists" answer is logged and provisioning goes on.
IsAlreadyExistsNever(err) == FALSE

IsAlreadyExistsAny(err) == TRUE

IsAlreadyExists(err) == err = alreadyExists

\* New, "Create TPR resource": the API server registers the resource
\* (s.tpr.CreateAndWait); unless that failed, the namespace's creation is
\* requested.
NewTPRStep(p, outcome) ==
    /\ pc[p] = "tpr"
    /\ LET err == IF outcome = "failed" THEN transportError
                  ELSE IF req[p].tpr \in tprs THEN alreadyExists
                  ELSE Nil
       IN  /\ tprs' = IF err = Nil THEN tprs \cup {req[p].tpr} ELSE tprs
           /\ IF ~IsAlreadyExists(err) /\ err # Nil
              THEN /\ pc' = [pc EXCEPT ![p] = "idle"]
                   /\ req' = [req EXCEPT ![p] = NoReq]
                   /\ result' = [result EXCEPT ![p] = Failed(Mask(err))]
                   /\ UNCHANGED nreq
              ELSE /\ pc' = [pc EXCEPT ![p] = "ns"]
                   /\ req' = [req EXCEPT ![p] =
                                [verb |-> "CreateNamespace",
                                 name |-> Namespace(op[p].config)]]
                   /\ nreq' = [nreq EXCEPT ![p] = @ + 1]
                   /\ UNCHANGED result
    /\ UNCHANGED <<namespaces, objects, storage, op, resp, lastWrite, seen, calls>>

\* New, "Create namespace": the API server creates the namespace; unless
\* that failed, the third party object is posted to the list endpoint.
NewNamespaceStep(p, outcome) ==
    /\ pc[p] = "ns"
    /\ LET err == IF outcome = "failed" THEN transportError
                  ELSE IF req[p].name \in namespaces THEN alreadyExists
                  ELSE Nil
       IN  /\ namespaces' = IF err = Nil THEN namespaces \cup {req[p].name}
                            ELSE namespaces
           /\ IF ~IsAlreadyExists(err) /\ err # Nil
              THEN /\ pc' = [pc EXCEPT ![p] = "idle"]
                   /\ req' = [req EXCEPT ![p] = NoReq]
                   /\ result' = [result EXCEPT ![p] = Failed(Mask(err))]
                   /\ UNCHANGED nreq
              ELSE /\ pc' = [pc EXCEPT ![p] = "tpo"]
                   /\ req' = [req EXCEPT ![p] =
                                [verb |-> "POST",
                                 path |-> NewStorage(op[p].config).tpoListEndpoint,
                                 body |-> Marshal(NewTPO(op[p].config))]]
                   /\ nreq' = [nreq EXCEPT ![p] = @ + 1]
                   /\ UNCHANGED result
    /\ UNCHANGED <<tprs, objects, storage, op, resp, lastWrite, seen, calls>>

\* The API server's answer to a POST of an object to a list endpoint.
PostErrorNone(path, body) == Nil

PostError(path, body) ==
    IF \E e \in objects : e.endpoint = path /\ e.obj.name = body.name
    THEN alreadyExists
    ELSE Nil

\* New, "Create TPO": the API server stores the object unless one of that
\* name is there; unless the request failed, New returns the Storage.
NewTPOStep(p, outcome) ==
    /\ pc[p] = "tpo"
    /\ LET err == IF outcome = "failed" THEN transportError
                  ELSE PostError(req[p].path, req[p].body)
       IN  /\ objects' = IF err = Nil
                         THEN objects \cup {[endpoint |-> req[p].path, obj |-> req[p].body]}
                         ELSE objects
           /\ IF ~IsAlreadyExists(err) /\ err # Nil
              THEN /\ result' = [result EXCEPT ![p] = Failed(Mask(err))]
                   /\ UNCHANGED storage
              ELSE /\ result' = [result EXCEPT ![p] =
                                   [val |-> NewStorage(op[p].config), err |-> Nil,
                                    panic |-> FALSE]]
                   /\ storage' = [storage EXCEPT ![p] = NewStorage(op[p].config)]
    /\ pc' = [pc EXCEPT ![p] = "idle"]
    /\ req' = [req EXCEPT ![p] = NoReq]
    /\ UNCHANGED <<tprs, namespaces, op, resp, lastWrite, seen, nreq, calls>>

\* ----------------------------------------------------- the facade's calls

\* A facade method is called on the Storage New returned.
Called(p, o, r) ==
    /\ pc[p] = "idle"
    /\ storage[p] # NoStorage
    /\ calls < MaxCalls
    /\ calls' = calls + 1
    /\ pc' = [pc EXCEPT ![p] = "pending"]
    /\ op' = [op EXCEPT ![p] = o]
    /\ req' = [req EXCEPT ![p] = r]
    /\ resp' = [resp EXCEPT ![p] = NoResp]
    /\ result' = [result EXCEPT ![p] = NoResult]
    /\ seen' = [seen EXCEPT ![p] = NoWrite]
    /\ nreq' = [nreq EXCEPT ![p] = 1]
    /\ UNCHANGED <<server, storage, lastWrite>>

PatchRequest(p, body) ==
    [verb |-> "PATCH", path |-> storage[p].tpoEndpoint, body |-> body]

GetRequest(p) == [verb |-> "GET", path |-> storage[p].tpoEndpoint]

CreateCall(p, key, value) ==
    Called(p, [name |-> "Create", key |-> key, value |-> value],
           PatchRequest(p, PutBody(key, value)))

PutCall(p, key, value) ==
    Called(p, [name |-> "Put", key |-> key, value |-> value],
           PatchRequest(p, PutBody(key, value)))

DeleteCall(p, key) ==
    Called(p, [name |-> "Delete", key |-> key], PatchRequest(p, DeleteBody(key)))

ExistsCall(p, key) == Called(p, [name |-> "Exists", key |-> key], GetRequest(p))

SearchCall(p, key) == Called(p, [name |-> "Search", key |-> key], GetRequest(p))

ListCall(p, key) == Called(p, [name |-> "List", key |-> key], GetRequest(p))

\* The stored objects at a path (the API server keeps names unique).
At(path) == { e \in objects : ObjectPath(e) = path }

\* History: the write caller p asked for, and whether its key was there.
Written(p) ==
    IF op[p].name = "Delete"
    THEN [kind |-> "Delete",
          was  |-> \E e \in At(req[p].path) :
                      /\ "data" \in DOMAIN e.obj
                      /\ op[p].key \in DOMAIN e.obj.data]
    ELSE [kind |-> "Put", val |-> op[p].value]

\* The API server handles a merge patch: the object at the path is replaced
\* by the patched one.  lastWrite records what the caller asked for.
StorePatch(p, outcome) ==
    /\ pc[p] = "pending"
    /\ req[p].verb = "PATCH"
    /\ pc' = [pc EXCEPT ![p] = "responded"]
    /\ req' = [req EXCEPT ![p] = NoReq]
    /\ IF outcome = "failed" \/ At(req[p].path) = {}
       THEN /\ resp' = [resp EXCEPT ![p] = [err |-> transportError]]
            /\ UNCHANGED <<objects, lastWrite, seen>>
       ELSE /\ objects' =
                 (objects \ At(req[p].path)) \cup
                 { [endpoint |-> e.endpoint, obj |-> MergePatch(e.obj, req[p].body)] :
                     e \in At(req[p].path) }
            /\ resp' = [resp EXCEPT ![p] = [err |-> Nil]]
            /\ lastWrite' = [lastWrite EXCEPT ![op[p].key] = Written(p)]
            /\ seen' = [seen EXCEPT ![p] = Written(p)]
    /\ UNCHANGED <<tprs, namespaces, storage, op, result, nreq, calls>>

\* A GET after which the API server holds the object with its data emptied.
StoreGetClears(p, outcome) ==
    /\ pc[p] = "pending"
    /\ req[p].verb = "GET"
    /\ pc' = [pc EXCEPT ![p] = "responded"]
    /\ req' = [req EXCEPT ![p] = NoReq]
    /\ IF outcome = "failed" \/ At(req[p].path) = {}
       THEN /\ resp' = [resp EXCEPT ![p] = [err |-> transportError]]
            /\ UNCHANGED <<seen, objects>>
       ELSE /\ \E e \in At(req[p].path) :
                 resp' = [resp EXCEPT ![p] = [err |-> Nil, obj |-> e.obj]]
            /\ seen' = [seen EXCEPT ![p] =
                          IF op[p].key \in Keys THEN lastWrite[op[p].key] ELSE NoWrite]
            /\ objects' =
                 (objects \ At(req[p].path)) \cup
                 { [endpoint |-> e.endpoint, obj |-> [e.obj EXCEPT !.data = EmptyMap]] :
                     e \in At(req[p].path) }
    /\ UNCHANGED <<tprs, namespaces, storage, op, result, lastWrite, nreq, calls>>

\* A round trip that sends the GET once more when the first one failed.
StoreGetRetry(p, outcome) ==
    /\ pc[p] = "pending"
    /\ req[p].verb = "GET"
    /\ IF outcome = "failed" /\ nreq[p] = 1
       THEN /\ nreq' = [nreq EXCEPT ![p] = @ + 1]
            /\ UNCHANGED <<pc, req, resp, seen>>
       ELSE /\ pc' = [pc EXCEPT ![p] = "responded"]
            /\ req' = [req EXCEPT ![p] = NoReq]
            /\ UNCHANGED nreq
            /\ IF outcome = "failed" \/ At(req[p].path) = {}
               THEN /\ resp' = [resp EXCEPT ![p] = [err |-> transportError]]
                    /\ UNCHANGED seen
               ELSE /\ \E e \in At(req[p].path) :
                         resp' = [resp EXCEPT ![p] = [err |-> Nil, obj |-> e.obj]]
                    /\ seen' = [seen EXCEPT ![p] =
                                  IF op[p].key \in Keys THEN lastWrite[op[p].key]
                                  ELSE NoWrite]
    /\ UNCHANGED <<server, storage, op, result, lastWrite, calls>>

\* The API server handles a GET: the object at the path is the response.
StoreGet(p, outcome) ==
    /\ pc[p] = "pending"
    /\ req[p].verb = "GET"
    /\ pc' = [pc EXCEPT ![p] = "responded"]
    /\ req' = [req EXCEPT ![p] = NoReq]
    /\ IF outcome = "failed" \/ At(req[p].path) = {}
       THEN /\ resp' = [resp EXCEPT ![p] = [err |-> transportError]]
            /\ UNCHANGED seen
       ELSE /\ \E e \in At(req[p].path) :
                 resp' = [resp EXCEPT ![p] = [err |-> Nil, obj |-> e.obj]]
            /\ seen' = [seen EXCEPT ![p] =
                          IF op[p].key \in Keys THEN lastWrite[op[p].key] ELSE NoWrite]
    /\ UNCHANGED <<server, storage, op, result, lastWrite, nreq, calls>>

\* The handler has its response and returns.
Returned(p, name, r) ==
    /\ pc[p] = "responded"
    /\ op[p].name = name
    /\ pc' = [pc EXCEPT ![p] = IF r.panic THEN "crashed" ELSE "idle"]
    /\ resp' = [resp EXCEPT ![p] = NoResp]
    /\ result' = [result EXCEPT ![p] = r]
    /\ UNCHANGED <<server, storage, op, req, lastWrite, seen, nreq, calls>>

CreateReturn(p) == Returned(p, "Create", CreateResult(PutResult(resp[p].err)))

PutReturn(p) == Returned(p, "Put", PutResult(resp[p].err))

DeleteReturn(p) == Returned(p, "Delete", DeleteResult(resp[p].err))

ExistsReturn(p) == Returned(p, "Exists", Exists(getData(resp[p]), op[p].key))

SearchReturn(p) == Returned(p, "Search", Search(getData(resp[p]), op[p].key))

ListReturn(p) ==
    /\ pc[p] = "responded"
    /\ op[p].name = "List"
    /\ \E order \in Orders(DOMAIN getData(resp[p]).data) :
          Returned(p, "List", List(getData(resp[p]), op[p].key, order))

Next ==
    \E p \in Procs :
        \/ \E config \in Configs : NewCall(p, config)
        \/ \E outcome \in Outcomes : NewTPRStep(p, outcome)
        \/ \E outcome \in Outcomes : NewNamespaceStep(p, outcome)
        \/ \E outcome \in Outcomes : NewTPOStep(p, outcome)
        \/ \E key \in Keys, value \in Values : CreateCall(p, key, value)
        \/ \E key \in Keys, value \in Values : PutCall(p, key, value)
        \/ \E key \in Keys : DeleteCall(p, key)
        \/ \E key \in Keys : ExistsCall(p, key)
        \/ \E key \in Keys : SearchCall(p, key)
        \/ \E key \in ListKeys : ListCall(p, key)
        \/ \E outcome \in Outcomes : StorePatch(p, outcome)
        \/ \E outcome \in Outcomes : StoreGet(p, outcome)
        \/ CreateReturn(p)
        \/ PutReturn(p)
        \/ DeleteReturn(p)
        \/ ExistsReturn(p)
        \/ SearchReturn(p)
        \/ ListReturn(p)

Spec == Init /\ [][Next]_vars

\* ------------------------------------------------------------- the claims

Elems(seq) == { seq[i] : i \in DOMAIN seq }

\* Caller p's last call was `name` and has returned.
Done(p, name) == pc[p] = "idle" /\ op[p].name = name /\ result[p] # NoResult

\* This step is caller p's handler of `name` returning.
Returning(p, name) ==
    pc[p] = "responded" /\ op[p].name = name /\ pc'[p] # "responded"

\* The stored object the Storage of caller p addresses, as a response.
Stored(p) ==
    { [err |-> Nil, obj |-> e.obj] : e \in At(storage[p].tpoEndpoint) }

\* C1: a Search or Exists of key k that the API server serves when the last
\* write applied to k is a Put(k, v) returns v with no error, respectively
\* true with no error.
C1_PutThenSearchExists ==
    \A p \in Procs :
        (pc[p] = "idle" /\ result[p] # NoResult /\ seen[p].kind = "Put") =>
            /\ op[p].name = "Search" =>
                 (result[p].val = seen[p].val /\ result[p].err = Nil)
            /\ op[p].name = "Exists" =>
                 (result[p].val = TRUE /\ result[p].err = Nil)

\* A Search has returned the empty string that a Put wrote.
C1_Witness ==
    \E p \in Procs :
        /\ Done(p, "Search")
        /\ seen[p] = [kind |-> "Put", val |-> ""]
        /\ result[p].val = "" /\ result[p].err = Nil

\* C2: a facade call whose request the store client failed returns a
\* non-nil error.
C2_ClientErrorPropagated ==
    [][\A p \in Procs :
         (pc[p] = "responded" /\ pc'[p] # "responded" /\ resp[p].err # Nil)
            => result'[p].err # Nil]_vars

\* C3: a List of a key that is itself a key of the data returns, and its
\* result holds the empty relative key.
C3_ListExactMatch ==
    [][\A p \in Procs :
         (/\ Returning(p, "List")
          /\ resp[p].err = Nil
          /\ op[p].key \in DOMAIN getData(resp[p]).data)
            => /\ ~result'[p].panic
               /\ result'[p].err = Nil
               /\ << >> \in Elems(result'[p].val)]_vars

\* C4: the result of a List of key holds the rest of every data key that
\* starts with key + "/"; a data key other than those and key itself adds
\* nothing to it; and when no data key matches, List returns the empty
\* sequence and no error.
C4_ListSegmentAware ==
    [][\A p \in Procs :
         (Returning(p, "List") /\ resp[p].err = Nil) =>
            LET data == getData(resp[p]).data
                key == op[p].key
                sub == { k \in DOMAIN data : HasPrefix(k, key \o <<"/">>) }
                Rest(k) == SubSeq(k, Len(key) + 2, Len(k))
            IN  /\ \A k \in sub :
                      /\ ~result'[p].panic
                      /\ result'[p].err = Nil
                      /\ Rest(k) \in Elems(result'[p].val)
                /\ Elems(result'[p].val) \subseteq
                      { Rest(k) : k \in sub }
                          \cup (IF key \in DOMAIN data THEN { << >> } ELSE {})
                /\ (sub = {} /\ key \notin DOMAIN data) =>
                      /\ ~result'[p].panic
                      /\ result'[p].err = Nil
                      /\ result'[p].val = << >>]_vars

\* C5: a Search returns the not-found error exactly when the fetch
\* succeeded and the key is not in the data fetched, and then with the
\* empty string; so it does for a key never written or last deleted.
C5_SearchAbsentNotFound ==
    [][\A p \in Procs :
         Returning(p, "Search") =>
            LET absent == /\ resp[p].err = Nil
                          /\ op[p].key \notin DOMAIN getData(resp[p]).data
            IN  /\ (result'[p].err = notFoundError) <=> absent
                /\ absent => result'[p].err # Nil
                /\ (resp[p].err = Nil /\ seen[p].kind \in {"None", "Delete"})
                      => result'[p].err = notFoundError]_vars

\* A Search of a deleted key has returned the not-found error.
C5_Witness ==
    \E p \in Procs :
        /\ Done(p, "Search")
        /\ seen[p].kind = "Delete"
        /\ result[p].err = notFoundError

\* C6: an Exists or Search of key k that the API server serves when the
\* last write applied to k is a Delete of k, then present, returns false
\* with no error, respectively the not-found error.
C6_DeleteThenAbsent ==
    \A p \in Procs :
        (/\ pc[p] = "idle" /\ result[p] # NoResult
         /\ seen[p].kind = "Delete" /\ seen[p].was) =>
            /\ op[p].name = "Exists" =>
                 (result[p].val = FALSE /\ result[p].err = Nil)
            /\ op[p].name = "Search" => result[p].err = notFoundError

\* An Exists of a key that was there and was deleted has returned false.
C6_Witness ==
    \E p \in Procs :
        /\ Done(p, "Exists")
        /\ seen[p] = [kind |-> "Delete", was |-> TRUE]
        /\ result[p].val = FALSE /\ result[p].err = Nil

\* C7: whatever the interleaving of the callers' patches, every key whose
\* last applied write is a Put(k, v) is in the stored object with v: read
\* from it, Search gives v, Exists gives true and List of the empty key
\* holds k's rest, in every order of the range.
C7_DistinctKeysNotClobbered ==
    \A p \in Procs : \A k \in Keys :
        (storage[p] # NoStorage /\ lastWrite[k].kind = "Put") =>
            \A r \in Stored(p) :
                /\ Search(getData(r), k).val = lastWrite[k].val
                /\ Search(getData(r), k).err = Nil
                /\ Exists(getData(r), k).val
                /\ \A order \in Orders(DOMAIN getData(r).data) :
                      /\ ~List(getData(r), << >>, order).panic
                      /\ Tail(k) \in Elems(List(getData(r), << >>, order).val)

\* Both callers have a Put in flight at once, on different keys, and the
\* API server has applied both.
C7_Witness ==
    /\ \A p \in Procs :
          pc[p] = "responded" /\ op[p].name = "Put" /\ resp[p].err = Nil
    /\ \A p, q \in Procs : p # q => op[p].key # op[q].key
    /\ \A p \in Procs : lastWrite[op[p].key] = [kind |-> "Put", val |-> op[p].value]

\* The required fields of a configuration that are missing or empty.
Incomplete(config) ==
    \/ config.K8sClient = "nil"
    \/ config.Logger = "nil"
    \/ config.TPR.Name = ""
    \/ config.TPR.Version = ""
    \/ config.TPO.Name = ""

\* Every New that has returned, but for a failed request, has returned a
\* Storage and no error, and one object is at its path; no path holds two
\* objects.
C8_Returned ==
    /\ \A p \in Procs :
          (Done(p, "New") /\ ~Incomplete(op[p].config)
              /\ result[p].err # transportError)
             => /\ result[p].err = Nil
                /\ result[p].val = NewStorage(op[p].config)
                /\ Cardinality(At(result[p].val.tpoEndpoint)) = 1
    /\ \A e \in objects : Cardinality(At(ObjectPath(e))) = 1

\* C8: a New whose provisioning requests the API server served returns a
\* Storage and no error, also when the resource, the namespace and the
\* object are there already; no path ever holds two objects; and no step of
\* New changes or removes a stored object.
C8_SecondBootstrap ==
    [][/\ C8_Returned'
       /\ (\E p \in Procs : pc[p] \in {"tpr", "ns", "tpo"} /\ pc'[p] # pc[p])
             => \A e \in objects : e \in objects']_vars

\* A caller has bootstrapped, written a key and bootstrapped again: the
\* second New has returned no error and the key is still there.
C8_Witness ==
    \E p \in Procs : \E k \in Keys :
        /\ Done(p, "New") /\ result[p].err = Nil
        /\ \A q \in Procs \ {p} : storage[q] = NoStorage
        /\ lastWrite[k] = [kind |-> "Put", val |-> "v"]
        /\ \A r \in Stored(p) : getData(r).data[k] = "v"

\* C9: the API server applying the patch of a Delete of a key that is not
\* in the data leaves every stored object as it was, and that Delete
\* returns no error.
C9_DeleteAbsent ==
    [][\A p \in Procs :
         /\ (/\ pc[p] = "pending" /\ op[p].name = "Delete"
             /\ pc'[p] = "responded" /\ resp'[p].err = Nil
             /\ ~seen'[p].was)
               => objects' = objects
         /\ (/\ Returning(p, "Delete")
             /\ seen[p] = [kind |-> "Delete", was |-> FALSE])
               => result'[p].err = Nil]_vars

\* A Delete of a key that was not there has returned no error.
C9_Witness ==
    \E p \in Procs :
        /\ Done(p, "Delete")
        /\ seen[p] = [kind |-> "Delete", was |-> FALSE]
        /\ result[p].err = Nil

\* C10: a New called with a required field missing has returned the
\* invalid-configuration error and no Storage, and has sent no request.
C10_InvalidConfig ==
    \A p \in Procs :
        (op[p].name = "New" /\ Incomplete(op[p].config)) =>
            /\ pc[p] = "idle"
            /\ result[p].err = invalidConfigError
            /\ result[p].val = NoStorage
            /\ nreq[p] = 0
            /\ req[p] = NoReq

\* A New without an object name has returned, the API server untouched.
C10_Witness ==
    \E p \in Procs :
        /\ Done(p, "New")
        /\ op[p].config.TPO.Name = ""
        /\ result[p].err = invalidConfigError
        /\ tprs = {} /\ namespaces = {} /\ objects = {}

\* The writes: the calls that send a merge patch.
Writes == {"Create", "Put", "Delete"}

\* C11: whatever the interleaving of the callers' patches, each key of the
\* stored data is as the last patch applied to it left it (the value of a
\* Put, absent after a Delete, absent when never written), whatever was
\* applied to other keys; and a write whose patch the API server applied
\* returns no error.
C11_LastAppliedWins ==
    /\ \A e \in objects : \A k \in Keys :
          /\ lastWrite[k].kind = "Put" =>
                (k \in DOMAIN e.obj.data /\ e.obj.data[k] = lastWrite[k].val)
          /\ lastWrite[k].kind \in {"Delete", "None"} => k \notin DOMAIN e.obj.data
    /\ \A p \in Procs :
          (/\ pc[p] = "idle" /\ op[p].name \in Writes /\ result[p] # NoResult
           /\ seen[p].kind # "None") => result[p].err = Nil

\* A Put and a Delete of the same key are in flight at once; the API server
\* has applied both, the Delete last, and the key is gone.
C11_Witness ==
    \E p, q \in Procs :
        /\ pc[p] = "responded" /\ op[p].name = "Put" /\ resp[p].err = Nil
        /\ pc[q] = "responded" /\ op[q].name = "Delete" /\ resp[q].err = Nil
        /\ op[p].key = op[q].key
        /\ lastWrite[op[p].key] = [kind |-> "Delete", was |-> TRUE]
        /\ \A e \in objects : op[p].key \notin DOMAIN e.obj.data

\* C12: an Exists whose fetch succeeded returns, with no error, whether
\* its key is itself a key of the data of the object fetched, whatever
\* other keys begin with it; so it returns false for a key never written.
C12_ExistsLiteral ==
    [][\A p \in Procs :
         (Returning(p, "Exists") /\ resp[p].err = Nil) =>
            /\ result'[p].err = Nil
            /\ result'[p].val = (op[p].key \in DOMAIN resp[p].obj.data)
            /\ seen[p].kind = "None" => result'[p].val = FALSE]_vars

\* An Exists of "/f" has returned false while "/f/b" is the one key stored.
C12_Witness ==
    \E p \in Procs :
        /\ Done(p, "Exists") /\ op[p].key = <<"/", "f">>
        /\ result[p].val = FALSE /\ result[p].err = Nil
        /\ \A q \in Procs \ {p} : storage[q] = NoStorage
        /\ \A e \in objects : DOMAIN e.obj.data = { <<"/", "f", "/", "b">> }

\* Caller p's New stops at this step: it returns the client's error and no
\* Storage, sends nothing more, and leaves the API server and the caller's
\* Storage as they are.
C13_Stops(p) ==
    /\ pc'[p] = "idle"
    /\ result'[p].err = transportError
    /\ result'[p].val = NoStorage
    /\ req'[p] = NoReq
    /\ nreq'[p] = nreq[p]
    /\ storage'[p] = storage[p]
    /\ server' = server

\* C13: New registers the resource, then creates the namespace, then posts
\* the object, each once and in this order.  A step goes on to the next
\* (the last one: returns the Storage) only if what it asks for was created
\* by it or was there already; otherwise New stops there.  No step removes
\* what an earlier step or anyone else created.
C13_ProvisioningOrder ==
    [][\A p \in Procs :
         /\ (pc'[p] = "tpr" /\ pc[p] # "tpr") => (pc[p] = "idle" /\ nreq'[p] = 1)
         /\ (pc'[p] = "ns" /\ pc[p] # "ns") => pc[p] = "tpr"
         /\ (pc'[p] = "tpo" /\ pc[p] # "tpo") => pc[p] = "ns"
         /\ (pc[p] = "tpr" /\ pc'[p] # "tpr") =>
               /\ namespaces' = namespaces /\ objects' = objects
               /\ tprs \subseteq tprs'
               /\ \/ /\ pc'[p] = "ns" /\ nreq'[p] = 2
                     /\ req[p].tpr \in tprs \/ tprs' = tprs \cup {req[p].tpr}
                     /\ req[p].tpr \in tprs => tprs' = tprs
                  \/ C13_Stops(p)
         /\ (pc[p] = "ns" /\ pc'[p] # "ns") =>
               /\ tprs' = tprs /\ objects' = objects
               /\ namespaces \subseteq namespaces'
               /\ \/ /\ pc'[p] = "tpo" /\ nreq'[p] = 3
                     /\ req[p].name \in namespaces
                           \/ namespaces' = namespaces \cup {req[p].name}
                     /\ req[p].name \in namespaces => namespaces' = namespaces
                  \/ C13_Stops(p)
         /\ (pc[p] = "tpo" /\ pc'[p] # "tpo") =>
               LET there == \E e \in objects :
                               e.endpoint = req[p].path /\ e.obj.name = req[p].body.name
               IN  /\ tprs' = tprs /\ namespaces' = namespaces
                   /\ objects \subseteq objects'
                   /\ \/ /\ pc'[p] = "idle" /\ nreq'[p] = 3
                         /\ result'[p].err = Nil
                         /\ result'[p].val = NewStorage(op[p].config)
                         /\ there \/ objects' # objects
                         /\ there => objects' = objects
                      \/ C13_Stops(p)]_vars

\* A New has stopped at the namespace: the resource it registered is still
\* there, the object was never posted.
C13_Witness ==
    \E p \in Procs :
        /\ Done(p, "New") /\ result[p].err = transportError
        /\ result[p].val = NoStorage
        /\ nreq[p] = 2
        /\ tprs # {} /\ namespaces = {} /\ objects = {}

\* C14: every stored object has a data member that is a map of keys, empty
\* or not: New posts it with an empty map and no Put or Delete takes the
\* member away.  A Put the API server serves returns no error, whatever was
\* deleted before it.
C14_DataPresent ==
    /\ \A e \in objects :
          /\ "data" \in DOMAIN e.obj
          /\ DOMAIN e.obj.data \subseteq Keys
          /\ \A k \in DOMAIN e.obj.data : e.obj.data[k] \in Values
    /\ \A p \in Procs :
          (Done(p, "Put") /\ seen[p].kind = "Put") =>
              /\ result[p].err = Nil
              /\ \A e \in At(storage[p].tpoEndpoint) : "data" \in DOMAIN e.obj

\* One caller has bootstrapped, put a key, deleted it (the last one) and
\* then put another key: the map holds exactly that key.
C14_Witness ==
    \E p \in Procs : \E k1, k2 \in Keys :
        /\ k1 # k2
        /\ calls = MaxCalls
        /\ \A q \in Procs \ {p} : storage[q] = NoStorage
        /\ Done(p, "Put") /\ op[p].key = k2 /\ result[p].err = Nil
        /\ lastWrite[k1] = [kind |-> "Delete", was |-> TRUE]
        /\ \A k \in Keys \ {k1, k2} : lastWrite[k] = NoWrite
        /\ \A e \in objects : DOMAIN e.obj.data = {k2}
        /\ objects # {}

\* Stored objects e and e2 are the same object but for the entry of key k in
\* data: same address, same type and object metadata, and every other key
\* present in one is present in the other with the same value.
C15_SameButFor(e, e2, k) ==
    /\ e2.endpoint = e.endpoint
    /\ DOMAIN e2.obj = DOMAIN e.obj
    /\ \A f \in DOMAIN e.obj \ {"data"} : e2.obj[f] = e.obj[f]
    /\ \A j \in Keys \ {k} :
          /\ j \in DOMAIN e2.obj.data <=> j \in DOMAIN e.obj.data
          /\ j \in DOMAIN e.obj.data => e2.obj.data[j] = e.obj.data[j]

\* C15: the step in which the API server applies the patch of a Put(k, v) or
\* Delete(k) changes nothing but the entry of k in the data of the object
\* addressed: other keys, kind, apiVersion, name, namespace and annotations
\* stay, and so do all other objects, the resources and the namespaces.
C15_WriteFrame ==
    [][\A p \in Procs :
         (/\ pc[p] = "pending" /\ op[p].name \in Writes
          /\ pc'[p] = "responded" /\ resp'[p].err = Nil) =>
             /\ tprs' = tprs /\ namespaces' = namespaces
             /\ \A e \in objects \ At(req[p].path) : e \in objects'
             /\ \A e \in At(req[p].path) :
                   \E e2 \in objects' : C15_SameButFor(e, e2, op[p].key)
             /\ \A e2 \in objects' :
                   \E e \in objects : C15_SameButFor(e, e2, op[p].key)
             /\ \A e2 \in objects' :
                   ObjectPath(e2) = req[p].path =>
                      IF op[p].name = "Delete"
                      THEN op[p].key \notin DOMAIN e2.obj.data
                      ELSE /\ op[p].key \in DOMAIN e2.obj.data
                           /\ e2.obj.data[op[p].key] = op[p].value]_vars

\* A Delete of a stored key has been applied while another key was stored:
\* that other key is still there.
C15_Witness ==
    \E p \in Procs : \E k \in Keys :
        /\ pc[p] = "responded" /\ op[p].name = "Delete" /\ resp[p].err = Nil
        /\ seen[p] = [kind |-> "Delete", was |-> TRUE]
        /\ k # op[p].key
        /\ lastWrite[k].kind = "Put"
        /\ \A e \in objects : DOMAIN e.obj.data = {k}
        /\ objects # {}

\* Every New of a complete configuration that has returned gave either the
\* Storage with no error or the client's own failure, never a conflict;
\* whoever holds a Storage has exactly one object at its address; and what
\* is stored under each key is what the last write applied to it left.
C16_Bootstrapped ==
    /\ \A p \in Procs :
          (Done(p, "New") /\ ~Incomplete(op[p].config)) =>
             /\ result[p].err \in {Nil, transportError}
             /\ result[p].err = Nil =>
                   /\ result[p].val = NewStorage(op[p].config)
                   /\ storage[p] = result[p].val
    /\ \A p \in Procs :
          storage[p] # NoStorage => Cardinality(At(storage[p].tpoEndpoint)) = 1
    /\ \A e \in objects : \A k \in Keys :
          IF lastWrite[k].kind = "Put"
          THEN k \in DOMAIN e.obj.data /\ e.obj.data[k] = lastWrite[k].val
          ELSE k \notin DOMAIN e.obj.data

\* C16: callers bootstrap the same resource, namespace and object name in
\* any interleaving of their steps.  Each gets the Storage unless its own
\* client fails, one object exists at the address, and no step of a New
\* changes or replaces an object that is stored: a key another caller wrote
\* before or during the New is still there.
C16_ConcurrentBootstrap ==
    [][/\ C16_Bootstrapped'
       /\ \A p \in Procs :
            (pc[p] \in {"tpr", "ns", "tpo"} /\ pc'[p] # pc[p]) =>
               /\ objects \subseteq objects'
               /\ \A e2 \in objects' \ objects : At(ObjectPath(e2)) = {}
               /\ lastWrite' = lastWrite]_vars

\* One caller holds the Storage and has put a key while the other caller's
\* New, started on the same configuration, is about to post the object.
C16_Witness ==
    \E p, q \in Procs :
        /\ p # q
        /\ Done(p, "Put") /\ result[p].err = Nil
        /\ pc[q] = "tpo" /\ op[q].name = "New"
        /\ NewStorage(op[q].config) = storage[p]
        /\ \A e \in objects :
              /\ op[p].key \in DOMAIN e.obj.data
              /\ e.obj.data[op[p].key] = "v"
        /\ objects # {}

Reads == {"Exists", "Search", "List"}

\* C17: a read starts with no response in hand; the response it gets is the
\* object stored at its address at that step, which holds under every key
\* what the last write applied before that step left; the response stays
\* as it is until the read returns; and what the read returns is computed
\* from that response alone.
C17_ReadsFresh ==
    [][\A p \in Procs :
         op'[p].name \in Reads =>
            /\ (pc[p] = "idle" /\ pc'[p] = "pending") =>
                  resp'[p] = NoResp /\ result'[p] = NoResult
            /\ (pc[p] = "pending" /\ pc'[p] = "responded" /\ resp'[p].err = Nil) =>
                  /\ \E e \in objects :
                        /\ ObjectPath(e) = storage[p].tpoEndpoint
                        /\ resp'[p].obj = e.obj
                  /\ \A k \in Keys :
                        IF lastWrite[k].kind = "Put"
                        THEN /\ k \in DOMAIN resp'[p].obj.data
                             /\ resp'[p].obj.data[k] = lastWrite[k].val
                        ELSE k \notin DOMAIN resp'[p].obj.data
            /\ (pc[p] = "responded" /\ pc'[p] = "responded") => resp'[p] = resp[p]
            /\ (pc[p] = "responded" /\ pc'[p] # "responded" /\ resp[p].err = Nil) =>
                  LET data == resp[p].obj.data
                      key == op[p].key
                      sub == { k \in DOMAIN data : HasPrefix(k, key \o <<"/">>) }
                  IN  /\ op[p].name = "Exists" =>
                            /\ result'[p].err = Nil
                            /\ result'[p].val = (key \in DOMAIN data)
                      /\ op[p].name = "Search" =>
                            IF key \in DOMAIN data
                            THEN result'[p].err = Nil /\ result'[p].val = data[key]
                            ELSE result'[p].err = notFoundError
                      /\ (op[p].name = "List" /\ ~result'[p].panic) =>
                            /\ result'[p].err = Nil
                            /\ Elems(result'[p].val) =
                                  { SubSeq(k, Len(key) + 2, Len(k)) : k \in sub }]_vars

\* A Search by one caller has returned the value another caller put.
C17_Witness ==
    \E p, q \in Procs :
        /\ p # q
        /\ Done(q, "Put") /\ result[q].err = Nil /\ op[q].value = "v"
        /\ Done(p, "Search") /\ op[p].key = op[q].key
        /\ result[p].err = Nil /\ result[p].val = "v"

Facade == Writes \cup Reads

\* Where the call of caller p stands agrees with the requests it has sent:
\* a facade call has sent one request, in flight exactly while the call is
\* pending; a New has sent one request per step it has come to, three when
\* it returned the Storage, none when the configuration was incomplete.
C18_Sent ==
    \A p \in Procs :
        /\ op[p].name \in Facade =>
              /\ nreq[p] = 1
              /\ (req[p] # NoReq) <=> (pc[p] = "pending")
        /\ op[p].name = "New" =>
              /\ pc[p] = "tpr" => (nreq[p] = 1 /\ req[p].verb = "CreateTPR")
              /\ pc[p] = "ns" => (nreq[p] = 2 /\ req[p].verb = "CreateNamespace")
              /\ pc[p] = "tpo" => (nreq[p] = 3 /\ req[p].verb = "POST")
              /\ pc[p] = "idle" =>
                    /\ req[p] = NoReq
                    /\ nreq[p] \in 0..3
                    /\ nreq[p] = 0 <=> Incomplete(op[p].config)
                    /\ result[p].err = Nil => nreq[p] = 3

\* C18: no request is sent twice.  A facade call sends its request when it
\* is called; the API server's answer, success or failure, ends the round
\* trip and the call never becomes pending again; a step of New is never
\* gone back to or repeated.
C18_NoRetry ==
    [][/\ C18_Sent'
       /\ \A p \in Procs :
            /\ nreq'[p] # nreq[p] =>
                  \/ pc[p] = "idle" /\ pc'[p] \in {"idle", "pending", "tpr"}
                  \/ pc[p] = "tpr" /\ pc'[p] = "ns"
                  \/ pc[p] = "ns" /\ pc'[p] = "tpo"
            /\ (req'[p] # req[p] /\ req'[p] # NoReq) =>
                  IF pc[p] = "idle" THEN nreq'[p] = 1 ELSE nreq'[p] = nreq[p] + 1
            /\ (pc[p] = "pending" /\ pc'[p] # "pending") =>
                  /\ pc'[p] = "responded"
                  /\ req'[p] = NoReq
                  /\ nreq'[p] = nreq[p]
            /\ (pc[p] = "responded" /\ pc'[p] # "responded") =>
                  /\ pc'[p] \in {"idle", "crashed"}
                  /\ req'[p] = NoReq /\ nreq'[p] = nreq[p]
                  /\ result'[p].err \in {Nil, notFoundError} \/ result'[p].err = resp[p].err
            /\ (pc[p] \in {"tpr", "ns", "tpo"} /\ pc'[p] = "idle") =>
                  nreq'[p] = nreq[p]]_vars

\* A read whose one request failed has returned the client's error.
C18_Witness ==
    \E p \in Procs :
        /\ Done(p, "Search")
        /\ result[p].err = transportError
        /\ nreq[p] = 1
        /\ req[p] = NoReq

\* C19: no step of an Exists, Search or List (its call, the API server's
\* handling of its GET, served or failed, and its return, with a value,
\* not-found, an error or a panic) changes anything the API server stores,
\* nor what counts as the last write of any key.
C19_ReadsDoNotWrite ==
    [][\A p \in Procs :
         (op'[p].name \in Reads /\ pc'[p] # pc[p]) =>
            /\ objects' = objects
            /\ tprs' = tprs /\ namespaces' = namespaces
            /\ lastWrite' = lastWrite
            /\ storage' = storage]_vars

\* A Search has reported not-found for a key while another key is stored.
C19_Witness ==
    \E p \in Procs :
        /\ Done(p, "Search")
        /\ result[p].err = notFoundError
        /\ objects # {}
        /\ \A e \in objects :
              /\ DOMAIN e.obj.data # {}
              /\ op[p].key \notin DOMAIN e.obj.data

====
